---- MODULE Spec2Model ----
(***************************************************************************)
(* State-machine model of the optimizers of src/optimizers.py (SGDl1,      *)
(* SGDFWl1, SGDFWNuclear), built on torch.optim.Optimizer.                 *)
(*                                                                         *)
(* Tensors are sequences of exact rationals <<numerator, denominator>>     *)
(* (denominator > 0, lowest terms), so that the arithmetic of a step is    *)
(* computed operation by operation, as the code computes it, without the   *)
(* rounding of floating point.                                             *)
(***************************************************************************)
EXTENDS Integers, Sequences, FiniteSets, TLC

VARIABLES
    opt,      \* the optimizer object as far as its constructor built it
    phase,    \* "start": not constructed, "ready": constructed, "dead": constructor raised
    raised,   \* the exception the last constructor or step call raised ("none" if none)
    data,     \* p.data of every parameter (owned by the external model)
    grad,     \* p.grad of every parameter, None when absent
    data0,    \* p.data of every parameter before the optimizer was constructed
    ctor,     \* the arguments of the constructor call
    calls,    \* the number of step calls made so far
    twin      \* the SGDFWNuclear optimizer run side by side with opt (SpecPair only)

vars == <<opt, phase, raised, data, grad, data0, ctor, calls, twin>>

----------------------------------------------------------------------------
(* Bounds of the model.                                                    *)

\* number of parameter tensors of the external model
NumParams == 2
\* number of step calls explored
MaxSteps == 2

Params == 1..NumParams

----------------------------------------------------------------------------
(* Exact rational arithmetic: the scalar operations of Python and torch.   *)

Abs(n) == IF n < 0 THEN -n ELSE n

RECURSIVE GCD(_, _)
GCD(a, b) == IF b = 0 THEN a ELSE GCD(b, a % b)

\* the rational n/d in lowest terms (d > 0)
Norm(n, d) == LET g == GCD(Abs(n), d) IN <<n \div g, d \div g>>

Q(n) == <<n, 1>>
QAdd(a, b) == Norm(a[1] * b[2] + b[1] * a[2], a[2] * b[2])
QNeg(a) == <<-a[1], a[2]>>
QSub(a, b) == QAdd(a, QNeg(b))
QMul(a, b) == Norm(a[1] * b[1], a[2] * b[2])
QAbs(a) == <<Abs(a[1]), a[2]>>
QLt(a, b) == a[1] * b[2] < b[1] * a[2]
QLeq(a, b) == a[1] * b[2] <= b[1] * a[2]
\* torch.sign on one entry: sign(0) = 0
QSign(a) == IF a[1] > 0 THEN Q(1) ELSE IF a[1] < 0 THEN Q(-1) ELSE Q(0)

----------------------------------------------------------------------------
(* Tensors.                                                                *)

\* a gradient that is absent (p.grad is None)
None == <<>>

Vec(t) == [i \in 1..Len(t) |-> Q(t[i])]
\* torch.zeros_like
zeros_like(v) == [i \in 1..Len(v) |-> Q(0)]
\* torch.sign
sign(v) == [i \in 1..Len(v) |-> QSign(v[i])]
\* c * v
Scale(c, v) == [i \in 1..Len(v) |-> QMul(c, v[i])]
\* v + w, v - w
Plus(v, w) == [i \in 1..Len(v) |-> QAdd(v[i], w[i])]
Minus(v, w) == [i \in 1..Len(v) |-> QSub(v[i], w[i])]
\* Tensor.add_(c, w) : v + c * w
add_(v, c, w) == Plus(v, Scale(c, w))

RECURSIVE SumAbs(_, _)
SumAbs(v, i) == IF i > Len(v) THEN Q(0) ELSE QAdd(QAbs(v[i]), SumAbs(v, i + 1))
\* the L1 norm of a tensor
L1Norm(v) == SumAbs(v, 1)

----------------------------------------------------------------------------
(* The linear minimization oracles (module oracles, imported at            *)
(* src/optimizers.py:3; its code is not part of the sources).              *)

\* index of the first entry of largest absolute value
ArgMaxAbs(g) ==
    CHOOSE i \in 1..Len(g) :
        /\ \A j \in 1..Len(g) : QLeq(QAbs(g[j]), QAbs(g[i]))
        /\ \A j \in 1..(i - 1) : QLt(QAbs(g[j]), QAbs(g[i]))

\* the oracle rejects a radius that is not positive
LMO_raises(g, kappa) == ~QLt(Q(0), kappa)

LMO_l1(g, kappa) ==
    LET i == ArgMaxAbs(g)
    IN  [j \in 1..Len(g) |-> IF j = i THEN QNeg(QMul(kappa, QSign(g[i]))) ELSE Q(0)]

RECURSIVE SumSq(_, _)
SumSq(g, i) == IF i > Len(g) THEN Q(0) ELSE QAdd(QMul(g[i], g[i]), SumSq(g, i + 1))

\* the exact root of a square number
ISqrt(n) == CHOOSE r \in 0..n : r * r = n

\* The nuclear oracle -kappa * u1 * v1^T on a matrix of one row (stored as that
\* row): u1 = [1] and v1 = g / |g|_2, for the rows whose Euclidean norm is
\* rational; the zero matrix gives the zero matrix.
LMO_nuclear(g, kappa) ==
    LET q == SumSq(g, 1)
    IN  IF q[1] = 0 THEN zeros_like(g)
        ELSE LET c == QNeg(QMul(kappa, <<ISqrt(q[2]), ISqrt(q[1])>>))
             IN  Scale(c, g)

\* the oracle a step calls
LMO(name, g, kappa) == IF name = "LMO_l1" THEN LMO_l1(g, kappa) ELSE LMO_nuclear(g, kappa)

----------------------------------------------------------------------------
(* Construction.                                                           *)

\* a group dict without options of its own
NoOpts == [x \in {} |-> Q(0)]

\* torch.optim.Optimizer.__init__(params, defaults): a plain list of parameters
\* becomes one group; every group gets the defaults for the keys it lacks; the
\* per-parameter state starts empty.
Optimizer_init(self, params, defaults) ==
    LET given == IF params.plain THEN <<[params |-> params.list, opts |-> NoOpts]>>
                 ELSE params.groups
        groups == [j \in 1..Len(given) |->
                      [params |-> given[j].params, opts |-> given[j].opts @@ defaults]]
    IN  [raised |-> "none",
         self |-> self @@ [param_groups |-> groups, state |-> [p \in Params |-> None]]]

\* lines 7-10
SGDl1_init(params, lr, lambda_l1) ==
    LET self == [cls |-> "SGDl1"]
    IN  IF ~QLt(Q(0), lambda_l1) THEN [raised |-> "AssertionError", self |-> self]
        ELSE Optimizer_init(self, params, [lr |-> lr, l1 |-> lambda_l1])

\* SGDFWl1.__init__ with the assertion moved behind the registration
SGDFWl1_init_late(params, kappa_l1) ==
    LET r == Optimizer_init([cls |-> "SGDFWl1", k |-> 0], params, [kappa |-> kappa_l1])
    IN  IF ~QLt(Q(0), kappa_l1) THEN [raised |-> "AssertionError", self |-> r.self] ELSE r

\* lines 53-57
SGDFWl1_init(params, kappa_l1) ==
    LET self == [cls |-> "SGDFWl1", k |-> 0]
    IN  IF ~QLt(Q(0), kappa_l1) THEN [raised |-> "AssertionError", self |-> self]
        ELSE Optimizer_init(self, params, [kappa |-> kappa_l1])

\* super(Optimizer, self) is object: object.__init__ takes no arguments
object_init(self, params, defaults) == [raised |-> "TypeError", self |-> self]

\* lines 89-93
SGDFWNuclear_init(params, kappa_l1) ==
    LET self == [cls |-> "SGDFWNuclear", k |-> 0]
    IN  IF ~QLt(Q(0), kappa_l1) THEN [raised |-> "AssertionError", self |-> self]
        ELSE object_init(self, params, [kappa |-> kappa_l1])

----------------------------------------------------------------------------
(* SGDl1.step                                                              *)

\* lines 29-45: one parameter of a group; st = [state, data, grad]
SGDl1_param(st, p, lr, lam, momentum, dampening) ==
    IF st.grad[p] = None THEN st
    ELSE
        LET \* d_p is p.grad.data itself: add_ changes the gradient in place
            d_p == add_(st.grad[p], lam, sign(st.data[p]))
            buf == IF st.state[p] = None
                   THEN add_(Scale(momentum, zeros_like(st.data[p])), Q(1), d_p)
                   ELSE add_(Scale(momentum, st.state[p]), QSub(Q(1), dampening), d_p)
            dir == IF momentum # Q(0) THEN buf ELSE d_p
        IN  [state |-> IF momentum # Q(0) THEN [st.state EXCEPT ![p] = buf] ELSE st.state,
             data |-> [st.data EXCEPT ![p] = add_(st.data[p], QNeg(lr), dir)],
             grad |-> [st.grad EXCEPT ![p] = d_p]]

RECURSIVE SGDl1_params(_, _, _, _)
SGDl1_params(st, ps, i, o) ==
    IF i > Len(ps) THEN st
    ELSE SGDl1_params(SGDl1_param(st, ps[i], o.lr, o.l1, o.momentum, o.dampening),
                      ps, i + 1, o)

\* lines 23-45: the groups from the j-th on; a missing key raises KeyError
RECURSIVE SGDl1_groups(_, _, _)
SGDl1_groups(st, groups, j) ==
    IF j > Len(groups) THEN [raised |-> "none", st |-> st]
    ELSE LET o == groups[j].opts
         IN  IF "momentum" \notin DOMAIN o \/ "dampening" \notin DOMAIN o
             THEN [raised |-> "KeyError", st |-> st]
             ELSE SGDl1_groups(SGDl1_params(st, groups[j].params, 1, o), groups, j + 1)

SGDl1_step(self, d, g) ==
    LET r == SGDl1_groups([state |-> self.state, data |-> d, grad |-> g],
                          self.param_groups, 1)
    IN  [raised |-> r.raised,
         self |-> [self EXCEPT !.state = r.st.state],
         data |-> r.st.data,
         grad |-> r.st.grad]

----------------------------------------------------------------------------
(* SGDFWl1.step and SGDFWNuclear.step                                      *)

\* the step size with the counter off by one: 2 / (k + 1)
gamma_off_by_one(k) == Norm(2, k + 1)

\* lines 77, 113: gamma = 2 / (self.k + 2), the true division of Python 3
gamma(k) == Norm(2, k + 2)

\* lines 74-80, 110-116: one parameter of a group; st = [raised, data]
FW_param(st, g, p, oracle, kappa, k) ==
    IF g[p] = None THEN st
    ELSE IF LMO_raises(g[p], kappa) THEN [st EXCEPT !.raised = "ShapeError"]
    ELSE
        LET s == LMO(oracle, g[p], kappa)
            delta_p == Minus(Scale(gamma(k), s), Scale(gamma(k), st.data[p]))
        IN  [st EXCEPT !.data[p] = Plus(st.data[p], delta_p)]

RECURSIVE FW_params(_, _, _, _, _, _, _)
FW_params(st, g, ps, i, oracle, kappa, k) ==
    IF i > Len(ps) \/ st.raised # "none" THEN st
    ELSE FW_params(FW_param(st, g, ps[i], oracle, kappa, k), g, ps, i + 1, oracle, kappa, k)

\* lines 70-80, 106-116: the groups from the j-th on; a group without the key
\* 'kappa_l1' raises KeyError
RECURSIVE FW_groups(_, _, _, _, _, _)
FW_groups(st, g, groups, j, oracle, k) ==
    IF j > Len(groups) \/ st.raised # "none" THEN st
    ELSE LET o == groups[j].opts
         IN  IF "kappa_l1" \notin DOMAIN o THEN [st EXCEPT !.raised = "KeyError"]
             ELSE FW_groups(FW_params(st, g, groups[j].params, 1, oracle, o.kappa_l1, k),
                            g, groups, j + 1, oracle, k)

\* the step of both Frank-Wolfe optimizers; the counter moves only when the
\* loops ended without an exception
FW_step(self, d, g, oracle) ==
    LET r == FW_groups([raised |-> "none", data |-> d], g, self.param_groups, 1, oracle, self.k)
    IN  [raised |-> r.raised,
         self |-> IF r.raised = "none" THEN [self EXCEPT !.k = self.k + 1] ELSE self,
         data |-> r.data,
         grad |-> g]

SGDFWl1_step(self, d, g) == FW_step(self, d, g, "LMO_l1")

SGDFWNuclear_step(self, d, g) == FW_step(self, d, g, "LMO_nuclear")

\* obj.step() on an optimizer of any of the three classes
step(self, d, g) ==
    IF self.cls = "SGDl1" THEN SGDl1_step(self, d, g)
    ELSE IF self.cls = "SGDFWl1" THEN SGDFWl1_step(self, d, g)
    ELSE SGDFWNuclear_step(self, d, g)

----------------------------------------------------------------------------
(* Inputs.                                                                 *)

Half == <<1, 2>>

\* values of a parameter tensor before training
DataVals == {Vec(<<1, 0>>), Vec(<<-2, 1>>)}

\* gradients the external model computes
GradVals == <<Vec(<<1, -2>>), Vec(<<-3, 3>>), Vec(<<0, 0>>)>>

\* the options a caller writes into a group dict
GroupOpts(cls) ==
    IF cls = "SGDl1"
    THEN {NoOpts,
          [momentum |-> Q(0), dampening |-> Q(0)],
          [momentum |-> Half, dampening |-> Half],
          [momentum |-> Half]}
    ELSE {NoOpts, [kappa_l1 |-> Q(1)], [kappa_l1 |-> Q(2)], [kappa_l1 |-> Q(0)]}

Range(lo, hi) == [i \in 1..(hi - lo + 1) |-> lo + i - 1]

\* the params argument: the plain list of all parameters, or two group dicts
ParamArgs(cls) ==
    {[plain |-> TRUE, list |-> Range(1, NumParams)]}
    \cup {[plain |-> FALSE,
           groups |-> <<[params |-> Range(1, m), opts |-> o1],
                        [params |-> Range(m + 1, NumParams), opts |-> o2]>>] :
             m \in 1..(NumParams - 1), o1 \in GroupOpts(cls), o2 \in GroupOpts(cls)}

\* the penalty or radius given to a constructor
HyperVals == {Q(-1), Q(0), Q(2)}

Classes == {"SGDl1", "SGDFWl1", "SGDFWNuclear"}

\* cls(params, ...) as the caller writes it
construct(cls, params, hyper) ==
    IF cls = "SGDl1" THEN SGDl1_init(params, Half, hyper)
    ELSE IF cls = "SGDFWl1" THEN SGDFWl1_init(params, hyper)
    ELSE SGDFWNuclear_init(params, hyper)

NoTwin == [phase |-> "start"]

----------------------------------------------------------------------------
(* The state machine: one optimizer and the model it trains.               *)

Init ==
    /\ opt = [cls |-> "none"]
    /\ phase = "start"
    /\ raised = "none"
    /\ data \in [Params -> DataVals]
    /\ grad = [p \in Params |-> None]
    /\ data0 = data
    /\ ctor = [cls |-> "none"]
    /\ calls = 0
    /\ twin = NoTwin

\* optimizer = cls(params, hyper)
Construct(cls, params, hyper) ==
    /\ phase = "start"
    /\ LET r == construct(cls, params, hyper)
       IN  /\ opt' = r.self
           /\ raised' = r.raised
           /\ phase' = IF r.raised = "none" THEN "ready" ELSE "dead"
    /\ ctor' = [cls |-> cls, params |-> params, hyper |-> hyper]
    /\ UNCHANGED <<data, grad, data0, calls, twin>>

\* the batches the external model computes gradients on
Batches == {1, 2}

\* the gradients after a backward pass: every parameter but `absent` gets one
Grads(c, absent) ==
    [p \in Params |-> IF p = absent THEN None ELSE GradVals[((c + p) % Len(GradVals)) + 1]]

\* loss.backward() of the external model
Backward(c, absent) ==
    /\ phase = "ready"
    /\ calls < MaxSteps
    /\ grad' = Grads(c, absent)
    /\ UNCHANGED <<opt, phase, raised, data, data0, ctor, calls, twin>>

\* optimizer.step(), called without a closure
Step ==
    /\ phase = "ready"
    /\ calls < MaxSteps
    /\ LET r == step(opt, data, grad)
       IN  /\ opt' = r.self
           /\ raised' = r.raised
           /\ data' = r.data
           /\ grad' = r.grad
    /\ calls' = calls + 1
    /\ UNCHANGED <<phase, data0, ctor, twin>>

Next ==
    \/ \E cls \in Classes : \E params \in ParamArgs(cls) : \E hyper \in HyperVals :
           Construct(cls, params, hyper)
    \/ \E c \in Batches : \E absent \in 0..NumParams : Backward(c, absent)
    \/ Step

Spec == Init /\ [][Next]_vars

----------------------------------------------------------------------------
(* SGDFWl1 and SGDFWNuclear side by side: both constructed from the same   *)
(* arguments, trained on equal tensors with equal gradients, and both      *)
(* steps calling one and the same oracle.                                  *)

SharedOracle == "LMO_l1"

PairConstruct(params, kappa) ==
    /\ phase = "start"
    /\ QLt(Q(0), kappa)
    /\ LET r == SGDFWl1_init(params, kappa)
           t == SGDFWNuclear_init(params, kappa)
       IN  /\ opt' = r.self
           /\ raised' = r.raised
           /\ phase' = IF r.raised = "none" THEN "ready" ELSE "dead"
           /\ twin' = [phase |-> IF t.raised = "none" THEN "ready" ELSE "dead",
                       raised |-> t.raised,
                       opt |-> t.self,
                       data |-> data,
                       grad |-> grad]
    /\ ctor' = [cls |-> "SGDFWl1", params |-> params, hyper |-> kappa]
    /\ UNCHANGED <<data, grad, data0, calls>>

PairBackward(c, absent) ==
    /\ phase = "ready"
    /\ calls < MaxSteps
    /\ grad' = Grads(c, absent)
    /\ twin' = [twin EXCEPT !.grad = Grads(c, absent)]
    /\ UNCHANGED <<opt, phase, raised, data, data0, ctor, calls>>

\* step() on each of the two optimizers that exists
PairStep ==
    /\ phase = "ready"
    /\ calls < MaxSteps
    /\ LET r == FW_step(opt, data, grad, SharedOracle)
       IN  /\ opt' = r.self
           /\ raised' = r.raised
           /\ data' = r.data
           /\ grad' = r.grad
    /\ twin' = IF twin.phase # "ready" THEN twin
               ELSE LET t == FW_step(twin.opt, twin.data, twin.grad, SharedOracle)
                    IN  [twin EXCEPT !.opt = t.self, !.raised = t.raised,
                                     !.data = t.data, !.grad = t.grad]
    /\ calls' = calls + 1
    /\ UNCHANGED <<phase, data0, ctor>>

PairNext ==
    \/ \E params \in ParamArgs("SGDFWl1") : \E kappa \in HyperVals : PairConstruct(params, kappa)
    \/ \E c \in Batches : \E absent \in 0..NumParams : PairBackward(c, absent)
    \/ PairStep

SpecPair == Init /\ [][PairNext]_vars

----------------------------------------------------------------------------
(* Vocabulary of the properties.                                           *)

FrankWolfe == {"SGDFWl1", "SGDFWNuclear"}

\* the group a registered parameter belongs to
GroupOf(p) ==
    opt.param_groups[CHOOSE j \in 1..Len(opt.param_groups) :
                         \E i \in 1..Len(opt.param_groups[j].params) :
                             opt.param_groups[j].params[i] = p]

\* the constraint radius of a group: the one its dict gives under the
\* constructor's name kappa_l1, else the constructor's
Radius(group) ==
    IF "kappa_l1" \in DOMAIN group.opts THEN group.opts.kappa_l1 ELSE group.opts.kappa

\* every parameter lies in the L1 ball of its group
Feasible(d) == \A p \in Params : QLeq(L1Norm(d[p]), Radius(GroupOf(p)))

\* every group's radius is positive
RadiiPositive == \A p \in Params : QLt(Q(0), Radius(GroupOf(p)))

\* (1 - gamma) * x + gamma * s with gamma = 2 / (k + 2)
ConvexCombination(x, s, k) ==
    Plus(Scale(QSub(Q(1), Norm(2, k + 2)), x), Scale(Norm(2, k + 2), s))

\* a step call of an optimizer of class cls
StepOf(cls) == Step /\ opt.cls = cls

----------------------------------------------------------------------------
(* Properties.                                                             *)

\* C1: an SGDFWl1 optimizer whose parameters all start inside the L1 ball of
\* their group keeps every parameter inside that ball, after any number of
\* step calls and whatever the gradients.
C1_Feasibility ==
    (phase = "ready" /\ opt.cls = "SGDFWl1" /\ Feasible(data0)) => Feasible(data)

\* C1 witness: two step calls have moved every parameter of a feasible start.
C1_Witness ==
    /\ phase = "ready" /\ opt.cls = "SGDFWl1" /\ Feasible(data0)
    /\ opt.k = 2
    /\ \A p \in Params : data[p] # data0[p] /\ L1Norm(data[p]) = Radius(GroupOf(p))

\* C2: the counter of a Frank-Wolfe optimizer is 0 after construction and
\* equals the number of step calls made.
C2_CounterIsCalls ==
    (phase = "ready" /\ opt.cls \in FrankWolfe) => opt.k = calls

\* C3: a step call of SGDFWl1 at counter k sets every parameter that has a
\* gradient g to (1 - gamma) * p + gamma * LMO_l1(g, kappa), gamma = 2 / (k + 2),
\* the same gamma for all parameters of the call.
C3_Update ==
    [][(StepOf("SGDFWl1") /\ RadiiPositive) =>
          \A p \in Params :
              grad[p] # None =>
                  data'[p] = ConvexCombination(data[p],
                                 LMO_l1(grad[p], Radius(GroupOf(p))), opt.k)]_vars

\* C4: a step call of SGDFWl1 on an optimizer built from a plain parameter list
\* with kappa_l1 = kappa completes without error, every oracle call having
\* received kappa; with group dicts every parameter is moved towards the
\* oracle's answer for the radius of its own group.
C4_GroupRadius ==
    [][(StepOf("SGDFWl1") /\ RadiiPositive) =>
          /\ ctor.params.plain => raised' = "none"
          /\ \A p \in Params :
                 LET kappa == IF ctor.params.plain THEN ctor.hyper ELSE Radius(GroupOf(p))
                 IN  grad[p] # None =>
                         data'[p] = FW_param([raised |-> "none", data |-> data], grad, p,
                                             "LMO_l1", kappa, opt.k).data[p]]_vars

\* C5: a constructor given a penalty or radius <= 0 fails on its assertion
\* (the configuration error), before the parameters are registered, read or
\* modified, and leaves no optimizer to call step on.
C5_FailFast ==
    (ctor.cls \in Classes /\ ~QLt(Q(0), ctor.hyper)) =>
        /\ phase = "dead"
        /\ raised = "AssertionError"
        /\ "param_groups" \notin DOMAIN opt
        /\ "state" \notin DOMAIN opt
        /\ data = data0
        /\ grad = [p \in Params |-> None]
        /\ ~ENABLED Step

\* C5 witness: SGDFWl1 was given the radius 0 and its constructor raised.
C5_Witness ==
    /\ ctor.cls = "SGDFWl1" /\ ctor.hyper = Q(0)
    /\ phase = "dead" /\ raised = "AssertionError"

\* C6: a step call skips a parameter without gradient without error: its value
\* and momentum buffer stay, the parameters with a gradient are updated, and a
\* Frank-Wolfe counter still increases by 1.
C6_AbsentSkipped ==
    [][(Step /\ (opt.cls = "SGDFWl1" => RadiiPositive)
             /\ \E p \in Params : grad[p] = None) =>
          /\ raised' = "none"
          /\ \A p \in Params :
                 grad[p] = None => data'[p] = data[p] /\ opt'.state[p] = opt.state[p]
          /\ \A p \in Params :
                 grad[p] # None =>
                     data'[p] = (IF opt.cls = "SGDl1"
                                 THEN LET o == GroupOf(p).opts
                                                   @@ [momentum |-> Q(0), dampening |-> Q(0)]
                                      IN  SGDl1_param([state |-> opt.state, data |-> data,
                                                       grad |-> grad],
                                                      p, o.lr, o.l1, o.momentum, o.dampening)
                                 ELSE FW_param([raised |-> "none", data |-> data], grad, p,
                                               "LMO_l1", Radius(GroupOf(p)), opt.k)).data[p]
          /\ opt.cls \in FrankWolfe => opt'.k = opt.k + 1]_vars

\* no group of the optimizer asks for momentum
MomentumZero ==
    \A p \in Params :
        "momentum" \in DOMAIN GroupOf(p).opts => GroupOf(p).opts.momentum = Q(0)

\* C7: a step call of SGDl1 with momentum 0 sets every parameter that has a
\* gradient to p - lr * (gradient + lambda * sign(p)) and creates no buffer.
C7_PlainDescent ==
    [][(StepOf("SGDl1") /\ MomentumZero) =>
          \A p \in Params :
              /\ opt'.state[p] = None
              /\ grad[p] # None =>
                     data'[p] = Minus(data[p],
                                      Scale(GroupOf(p).opts.lr,
                                            Plus(grad[p],
                                                 Scale(GroupOf(p).opts.l1, sign(data[p])))))]_vars

\* C8: a step call of SGDl1 leaves every gradient as it was.
C8_GradientsRead ==
    [][StepOf("SGDl1") => grad' = grad]_vars

\* C9: with momentum m # 0 the buffer of a parameter is never removed; a step
\* call with a gradient creates it as e = gradient + lambda * sign(p), or, when
\* it exists, makes it m * buffer + (1 - dampening) * e; the parameter becomes
\* p - lr * buffer with the new buffer.
C9_MomentumBuffer ==
    [][StepOf("SGDl1") =>
          \A p \in Params :
              LET o == GroupOf(p).opts @@ [dampening |-> Q(0)]
                  e == Plus(grad[p], Scale(o.l1, sign(data[p])))
              IN  ("momentum" \in DOMAIN o /\ o.momentum # Q(0)) =>
                      /\ opt.state[p] # None => opt'.state[p] # None
                      /\ grad[p] # None =>
                             /\ opt'.state[p] =
                                    (IF opt.state[p] = None THEN e
                                     ELSE Plus(Scale(o.momentum, opt.state[p]),
                                               Scale(QSub(Q(1), o.dampening), e)))
                             /\ data'[p] = Minus(data[p], Scale(o.lr, opt'.state[p]))]_vars

\* C10: constructed from the same arguments (kappa_l1 > 0) and stepped with the
\* same gradients and one shared oracle, SGDFWNuclear exists like SGDFWl1 and
\* has the same counter and the same parameter values.
C10_SameAsSGDFWl1 ==
    twin.phase # "start" =>
        /\ twin.phase = phase
        /\ twin.opt.k = opt.k
        /\ twin.data = data

====
